---------------------------- MODULE Spec2Model ----------------------------
(***************************************************************************)
(* A model of src/server.py: the Aadhaar QR age-verification endpoint.     *)
(*                                                                         *)
(*   smart_scan           the four-variant scan (lines 39-72)              *)
(*   calculate_exact_age  date parsing and age (lines 74-95)               *)
(*   decode_secure_qr     decimal -> bytes -> gzip -> Latin-1, with the     *)
(*                        UTF-8 fallback (lines 97-106)                    *)
(*   verify_aadhaar       the request handler (lines 109-159)              *)
(*                                                                         *)
(* Representation.  A bytes object is a sequence over 0..255; a str is a   *)
(* sequence of Unicode code points.  A Python int is a record [neg, mag]   *)
(* whose mag is its magnitude in base 256, most significant digit first,   *)
(* without leading zeros (zero has no digits): TLC's integers are          *)
(* 32 bits wide and the Secure QR integers are hundreds of bits.  A        *)
(* fallible step returns [ok, val]; ok = FALSE is a raised exception.      *)
(* None and the empty list are both the empty sequence: the code only      *)
(* tests decoded_objects for truthiness (lines 54-68, 127).                *)
(***************************************************************************)
EXTENDS Integers, Sequences, FiniteSets, TLC

\* ------------------------------------------------------------------ bounds
\* Symbols the locator returns for one image variant, at most.
MaxSymbols == 2
\* Length of a text blob put through the SecureNumeric round trip, at most.
MaxTextLen == 2
\* The length of the long texts of the codec; the payload of LongTextLen - 1
\* times "A" in a stored block has 4298 digits, that of LongTextLen has 4301.
LongTextLen == 1763
\* Integers 0..MaxSmallInt are put through the integer-to-bytes conversion.
MaxSmallInt == 300
\* Pieces a text of the date-extraction check is assembled from, at most.
MaxPieces == 3

\* CPython's default limit on the digits of a str -> int conversion
\* (sys.int_info.default_max_str_digits), which int() at line 100 obeys.
INT_MAX_STR_DIGITS == 4300

\* ----------------------------------------------------------- small helpers
Raise == [ok |-> FALSE, val |-> <<>>]
Ok(v) == [ok |-> TRUE, val |-> v]

Byte == 0..255

\* TLC passes arguments unevaluated and has a shallow evaluation stack.  The
\* loops of this module halve their range, and each tests its running value
\* on entry (Forced), which evaluates it there.  A value that several places
\* read is handed on as a parameter.
Forced(x) == x = x

SubSeqFrom(s, i) == SubSeq(s, i, Len(s))

\* The elements of a finite set of integers, ascending.
SortedSeq(S) ==
  [j \in 1..Cardinality(S) |-> CHOOSE x \in S : Cardinality({y \in S : y <= x}) = j]

RECURSIVE Pow2(_)
Pow2(n) == IF n = 0 THEN 1 ELSE 2 * Pow2(n - 1)

\* Bits of a byte, least significant first.
ByteBits(b) == [i \in 1..8 |-> (b \div Pow2(i - 1)) % 2]

RECURSIVE BitsValue(_)
BitsValue(bits) ==
  IF bits = <<>> THEN 0 ELSE bits[1] + 2 * BitsValue(Tail(bits))

\* ------------------------------------------------------ bytes.decode("utf-8")
IsCont(b) == b \in 128..191

\* The length of the well-formed UTF-8 sequence starting at s[i], or 0.
Utf8SeqLen(s, i) ==
  LET b == s[i]
      n == Len(s) - i + 1
      c(k) == i + k <= Len(s) /\ IsCont(s[i + k])
  IN  IF b < 128 THEN 1
      ELSE IF b \in 194..223 THEN (IF n >= 2 /\ c(1) THEN 2 ELSE 0)
      ELSE IF b = 224 THEN (IF n >= 3 /\ s[i + 1] \in 160..191 /\ c(2) THEN 3 ELSE 0)
      ELSE IF b \in (225..236) \cup (238..239)
        THEN (IF n >= 3 /\ c(1) /\ c(2) THEN 3 ELSE 0)
      ELSE IF b = 237 THEN (IF n >= 3 /\ s[i + 1] \in 128..159 /\ c(2) THEN 3 ELSE 0)
      ELSE IF b = 240
        THEN (IF n >= 4 /\ s[i + 1] \in 144..191 /\ c(2) /\ c(3) THEN 4 ELSE 0)
      ELSE IF b \in 241..243 THEN (IF n >= 4 /\ c(1) /\ c(2) /\ c(3) THEN 4 ELSE 0)
      ELSE IF b = 244
        THEN (IF n >= 4 /\ s[i + 1] \in 128..143 /\ c(2) /\ c(3) THEN 4 ELSE 0)
      ELSE 0

Utf8CodePoint(s, i, k) ==
  IF k = 1 THEN s[i]
  ELSE IF k = 2 THEN (s[i] - 192) * 64 + (s[i + 1] - 128)
  ELSE IF k = 3
    THEN (s[i] - 224) * 4096 + (s[i + 1] - 128) * 64 + (s[i + 2] - 128)
  ELSE (s[i] - 240) * 262144 + (s[i + 1] - 128) * 4096
         + (s[i + 2] - 128) * 64 + (s[i + 3] - 128)

\* data_bytes.decode("utf-8"): the code points, or UnicodeDecodeError.  A
\* sequence starts at every byte that is no continuation byte; the bytes are
\* well formed when each sequence is and the next one starts right after it.
Utf8Decode(s) ==
  LET IsStart(i) == ~IsCont(s[i])
      starts     == SelectSeq([i \in 1..Len(s) |-> i], IsStart)
      WellFormed(j) ==
        LET k == Utf8SeqLen(s, starts[j])
        IN  /\ k > 0
            /\ starts[j] + k = (IF j < Len(starts) THEN starts[j + 1] ELSE Len(s) + 1)
  IN  IF s # <<>> /\ IsCont(s[1]) THEN Raise
      ELSE IF \E j \in 1..Len(starts) : ~WellFormed(j) THEN Raise
      ELSE Ok([j \in 1..Len(starts) |->
                 Utf8CodePoint(s, starts[j], Utf8SeqLen(s, starts[j]))])

\* decompressed.decode("latin-1"): byte b is code point b; never raises.
Latin1Decode(s) == [i \in 1..Len(s) |-> s[i]]

\* str.encode("utf-8") of one code point (no surrogates in the model's texts).
Utf8EncodeChar(c) ==
  IF c < 128 THEN <<c>>
  ELSE IF c < 2048 THEN <<192 + (c \div 64), 128 + (c % 64)>>
  ELSE IF c < 65536
    THEN <<224 + (c \div 4096), 128 + ((c \div 64) % 64), 128 + (c % 64)>>
  ELSE <<240 + (c \div 262144), 128 + ((c \div 4096) % 64),
         128 + ((c \div 64) % 64), 128 + (c % 64)>>

\* The encoding of t[lo..hi]; the range is halved, which keeps the evaluation
\* shallow on long texts.
RECURSIVE Utf8EncodeRange(_, _, _)
Utf8EncodeRange(t, lo, hi) ==
  IF lo > hi THEN <<>>
  ELSE IF lo = hi THEN Utf8EncodeChar(t[lo])
  ELSE Utf8EncodeRange(t, lo, (lo + hi) \div 2)
         \o Utf8EncodeRange(t, ((lo + hi) \div 2) + 1, hi)

Utf8Encode(t) == Utf8EncodeRange(t, 1, Len(t))

\* ------------------------------------------------------------ Python int
\* A magnitude is its base-256 digits, most significant first, none for 0.
StripZeros(ds) ==
  LET nz == {i \in 1..Len(ds) : ds[i] # 0}
  IN  IF nz = {} THEN <<>>
      ELSE SubSeqFrom(ds, CHOOSE i \in nz : \A j \in nz : i <= j)

\* mag * k + a for small k and a: one pass over the digits mag[lo..hi] from
\* the least significant, st being the carry and the digits made so far;
\* then the digits of the last carry.  The range is halved, which keeps the
\* evaluation shallow on long numbers.
RECURSIVE MulAddRange(_, _, _, _, _)
MulAddRange(mag, k, lo, hi, st) ==
  IF ~Forced(st) THEN st
  ELSE IF lo > hi THEN st
  ELSE IF lo = hi
    THEN [carry |-> (mag[lo] * k + st.carry) \div 256,
          acc   |-> <<(mag[lo] * k + st.carry) % 256>> \o st.acc]
  ELSE MulAddRange(mag, k, lo, (lo + hi) \div 2,
                   MulAddRange(mag, k, ((lo + hi) \div 2) + 1, hi, st))

\* The digits of the last carry, in front of the digits made.
CarryDigits(st) ==
  StripZeros(<<st.carry \div 16777216, (st.carry \div 65536) % 256,
               (st.carry \div 256) % 256, st.carry % 256>>) \o st.acc

MulAdd(mag, k, a) ==
  CarryDigits(MulAddRange(mag, k, 1, Len(mag), [carry |-> a, acc |-> <<>>]))

\* Long division of mag by a small k: one pass over the digits mag[lo..hi]
\* from the most significant, st being the remainder and the quotient digits
\* so far.
RECURSIVE DivModRange(_, _, _, _, _)
DivModRange(mag, k, lo, hi, st) ==
  IF ~Forced(st) THEN st
  ELSE IF lo > hi THEN st
  ELSE IF lo = hi
    THEN [r |-> (st.r * 256 + mag[lo]) % k,
          q |-> Append(st.q, (st.r * 256 + mag[lo]) \div k)]
  ELSE DivModRange(mag, k, ((lo + hi) \div 2) + 1, hi,
                   DivModRange(mag, k, lo, (lo + hi) \div 2, st))

Quotient(st) == [q |-> StripZeros(st.q), r |-> st.r]

DivMod(mag, k) ==
  Quotient(DivModRange(mag, k, 1, Len(mag), [r |-> 0, q |-> <<>>]))

\* What int(str) strips from both ends: the Unicode whitespace characters
\* (White_Space without the separators U+001C..U+001F, which int() leaves):
\* TAB..CR, SPACE, NEL, NBSP, OGHAM SPACE MARK, EN QUAD..HAIR SPACE, LINE
\* and PARAGRAPH SEPARATOR, NARROW NBSP, MEDIUM MATHEMATICAL SPACE,
\* IDEOGRAPHIC SPACE.
IsSpace(c) ==
  c \in (9..13) \cup {32, 133, 160, 5760} \cup (8192..8202)
         \cup {8232, 8233, 8239, 8287, 12288}

\* The zero of every run of ten Unicode decimal digits (category Nd) that
\* int() reads, as of the Unicode 14 tables of CPython 3.11: ASCII,
\* Arabic-Indic, ..., fullwidth (65296), ..., the mathematical digits
\* (120782..120822), ..., segmented digits (130032).
DigitZeros ==
  {48, 1632, 1776, 1984, 2406, 2534, 2662, 2790, 2918, 3046, 3174, 3302,
   3430, 3558, 3664, 3792, 3872, 4160, 4240, 6112, 6160, 6470, 6608,
   6784, 6800, 6992, 7088, 7232, 7248, 42528, 43216, 43264, 43472,
   43504, 43600, 44016, 65296, 66720, 68912, 69734, 69872, 69942, 70096,
   70384, 70736, 70864, 71248, 71360, 71472, 71904, 72016, 72784, 73040,
   73120, 92768, 92864, 93008, 120782, 120792, 120802, 120812, 120822,
   123200, 123632, 125264, 130032}

IsDigit(c) == \E z \in DigitZeros : c \in z..(z + 9)
DigitVal(c) == c - (CHOOSE z \in DigitZeros : c \in z..(z + 9))

\* s without the whitespace at both ends.
Strip(s) ==
  LET ink == {i \in 1..Len(s) : ~IsSpace(s[i])}
  IN  IF ink = {} THEN <<>>
      ELSE SubSeq(s, CHOOSE i \in ink : \A j \in ink : i <= j,
                     CHOOSE i \in ink : \A j \in ink : i >= j)

\* Digits, with single underscores allowed between two digits.
DigitsWellFormed(s) ==
  /\ s # <<>>
  /\ \A i \in 1..Len(s) :
       \/ IsDigit(s[i])
       \/ s[i] = 95 /\ i > 1 /\ i < Len(s) /\ IsDigit(s[i - 1]) /\ IsDigit(s[i + 1])

\* Decimal digits are taken DecChunk at a time, which keeps every
\* intermediate value within TLC's 32-bit integers.
DecChunk == 6

RECURSIVE Pow10(_)
Pow10(n) == IF n = 0 THEN 1 ELSE 10 * Pow10(n - 1)

\* The value of at most DecChunk digit characters.
RECURSIVE ChunkValue(_)
ChunkValue(cs) ==
  IF cs = <<>> THEN 0
  ELSE ChunkValue(SubSeq(cs, 1, Len(cs) - 1)) * 10 + DigitVal(cs[Len(cs)])

\* The magnitude of the digit characters ds, DecChunk at a time: acc being
\* that of the chunks before chunk lo, acc * 10^n + the n digits of a chunk,
\* for the chunks lo..hi.
RECURSIVE FromDecimalRange(_, _, _, _)
FromDecimalRange(ds, lo, hi, acc) ==
  IF ~Forced(acc) THEN acc
  ELSE IF lo > hi THEN acc
  ELSE IF lo = hi
    THEN LET i == DecChunk * (lo - 1) + 1
             j == IF DecChunk * lo < Len(ds) THEN DecChunk * lo ELSE Len(ds)
         IN  MulAdd(acc, Pow10(j - i + 1), ChunkValue(SubSeq(ds, i, j)))
  ELSE FromDecimalRange(ds, ((lo + hi) \div 2) + 1, hi,
                        FromDecimalRange(ds, lo, (lo + hi) \div 2, acc))

FromDecimal(ds) ==
  FromDecimalRange(ds, 1, (Len(ds) + DecChunk - 1) \div DecChunk, <<>>)

\* int(s) for a str s, base 10: optional whitespace around, an optional sign,
\* digits; ValueError otherwise, and beyond INT_MAX_STR_DIGITS digits.
\* The int of a sign and a magnitude; there is no negative zero.
SignedInt(neg, mag) == Ok([neg |-> neg /\ mag # <<>>, mag |-> mag])

\* The digits after the sign.
IntOfBody(neg, body) ==
  IF ~DigitsWellFormed(body) THEN Raise
  ELSE IF Len(SelectSeq(body, IsDigit)) > INT_MAX_STR_DIGITS THEN Raise
  ELSE SignedInt(neg, StripZeros(FromDecimal(SelectSeq(body, IsDigit))))

\* The text between the whitespace: an optional "+" or "-", then the digits.
IntOfStripped(t) ==
  IF t # <<>> /\ Head(t) \in {43, 45} THEN IntOfBody(Head(t) = 45, Tail(t))
  ELSE IntOfBody(FALSE, t)

ParseInt(s) == IntOfStripped(Strip(s))

SmallBitLength(b) == Cardinality({k \in 0..7 : Pow2(k) <= b})

\* int.bit_length(): the bits of |n|, 0 for 0.
bit_length(n) ==
  IF n.mag = <<>> THEN 0 ELSE 8 * (Len(n.mag) - 1) + SmallBitLength(n.mag[1])

\* n.to_bytes(length, byteorder='big'), unsigned: OverflowError for n < 0 and
\* for an n that does not fit; zero bytes in front up to length.
to_bytes(n, length) ==
  IF n.neg \/ Len(n.mag) > length THEN Raise
  ELSE Ok([i \in 1..(length - Len(n.mag)) |-> 0] \o n.mag)

\* A byte length that always leaves room for one more bit.
ByteLenRoundedUp(n) == (bit_length(n) \div 8) + 1

\* Line 101: byte_len = (big_int.bit_length() + 7) // 8.
ByteLen(n) == (bit_length(n) + 7) \div 8

\* Lines 101-102: big_int.to_bytes(byte_len, byteorder='big').
IntToBytes(n) == to_bytes(n, ByteLen(n))

\* int.from_bytes(b, 'big') and str(n): how a Secure QR payload is written.
from_bytes(b) == [neg |-> FALSE, mag |-> StripZeros(b)]

\* The digit characters of v < 10^DecChunk, all DecChunk of them.
ChunkDigits(v) == [i \in 1..DecChunk |-> 48 + ((v \div Pow10(DecChunk - i)) % 10)]

\* One division: the quotient is what is left, the digits of the remainder
\* go in front.
ToDecimalStep(st, dm) == [mag |-> dm.q, acc |-> ChunkDigits(dm.r) \o st.acc]

\* The decimal digits of a magnitude, DecChunk at a time from the least
\* significant: st is what is left of the magnitude and the digits so far;
\* at most n divisions.
RECURSIVE ToDecimalRun(_, _)
ToDecimalRun(st, n) ==
  IF ~Forced(st) THEN st
  ELSE IF st.mag = <<>> \/ n = 0 THEN st
  ELSE IF n = 1 THEN ToDecimalStep(st, DivMod(st.mag, Pow10(DecChunk)))
  ELSE ToDecimalRun(ToDecimalRun(st, n \div 2), n - (n \div 2))

ToDecimal(mag) == ToDecimalRun([mag |-> mag, acc |-> <<>>], Len(mag) + 1).acc

\* s without the "0" characters in front.
StripZeroChars(s) ==
  LET nz == {i \in 1..Len(s) : s[i] # 48}
  IN  IF nz = {} THEN <<>>
      ELSE SubSeqFrom(s, CHOOSE i \in nz : \A j \in nz : i <= j)

IntToStr(n) ==
  (IF n.neg THEN <<45>> ELSE <<>>)
    \o (IF n.mag = <<>> THEN <<48>> ELSE StripZeroChars(ToDecimal(n.mag)))

\* ------------------------------------------------------------------- zlib
\* A 32-bit word is its 32 bits, least significant first.
WordOfBytes(b) == ByteBits(b[1]) \o ByteBits(b[2]) \o ByteBits(b[3]) \o ByteBits(b[4])

\* The four bytes of a word, least significant byte first.
BytesOfWord(w) == [i \in 1..4 |-> BitsValue(SubSeq(w, 8 * i - 7, 8 * i))]

XorWord(a, b) == [i \in 1..32 |-> (a[i] + b[i]) % 2]
ShiftRight1(w) == Append(Tail(w), 0)

\* The reflected CRC-32 polynomial 0xEDB88320.
CrcPoly == WordOfBytes(<<32, 131, 184, 237>>)
AllOnes == [i \in 1..32 |-> 1]

RECURSIVE CrcBitSteps(_, _)
CrcBitSteps(w, n) ==
  IF ~Forced(w) THEN w
  ELSE IF n = 0 THEN w
  ELSE CrcBitSteps(IF w[1] = 1 THEN XorWord(ShiftRight1(w), CrcPoly)
                   ELSE ShiftRight1(w), n - 1)

\* The CRC-32 register after data[lo..hi], w being the register before.  The
\* range is halved, which keeps the evaluation shallow on long data.
RECURSIVE CrcRange(_, _, _, _)
CrcRange(w, data, lo, hi) ==
  IF ~Forced(w) THEN w
  ELSE IF lo > hi THEN w
  ELSE IF lo = hi
    THEN CrcBitSteps(XorWord(w, ByteBits(data[lo]) \o [j \in 1..24 |-> 0]), 8)
  ELSE CrcRange(CrcRange(w, data, lo, (lo + hi) \div 2), data,
                ((lo + hi) \div 2) + 1, hi)

CrcUpdate(w, data, i) == CrcRange(w, data, i, Len(data))

\* The CRC-32 of data, as the four bytes the gzip trailer stores.
Crc32Bytes(data) == BytesOfWord(XorWord(CrcUpdate(AllOnes, data, 1), AllOnes))

\* Len(data) mod 2^32, as the four bytes the gzip trailer stores.
ISizeBytes(n) ==
  <<n % 256, (n \div 256) % 256, (n \div 65536) % 256, (n \div 16777216) % 256>>

\* ---- inflate (RFC 1951, as zlib's inflate.c and inftrees.c read it)
\* Bit k (from 0) of a byte string; the bits of a byte count from the least
\* significant.
BitAt(b, k) == (b[(k \div 8) + 1] \div Pow2(k % 8)) % 2

\* n bits from bit k as a number, the first bit the least significant: the
\* header fields and the extra bits.
RECURSIVE BitsLE(_, _, _)
BitsLE(b, k, n) == IF n = 0 THEN 0 ELSE BitAt(b, k) + 2 * BitsLE(b, k + 1, n - 1)

\* n bits from bit k as a Huffman code, the first bit the most significant.
RECURSIVE BitsMSB(_, _, _)
BitsMSB(b, k, n) ==
  IF n = 0 THEN 0 ELSE 2 * BitsMSB(b, k, n - 1) + BitAt(b, k + n - 1)

\* The longest Huffman code of deflate (MAXBITS of inftrees.h).
MAXBITS == 15

\* A code is the sequence of its code lengths: lens[s + 1] is the length of
\* symbol s, 0 for a symbol without a code.  The codes are canonical: by
\* length, then by symbol.
CodeCount(lens, l) == Cardinality({s \in 1..Len(lens) : lens[s] = l})

\* The first code of length l.
RECURSIVE FirstCode(_, _)
FirstCode(lens, l) ==
  IF l = 1 THEN 0 ELSE 2 * (FirstCode(lens, l - 1) + CodeCount(lens, l - 1))

\* The part of the code space the lengths take, in units of 2^-MAXBITS.
RECURSIVE CodeSpace(_, _)
CodeSpace(lens, l) ==
  IF l = 0 THEN 0
  ELSE CodeSpace(lens, l - 1) + CodeCount(lens, l) * Pow2(MAXBITS - l)

\* inflate_table's verdict on a set of lengths: "complete"; "none" (no symbol
\* has a code); "single" (one code, of length 1: the one incomplete set it
\* lets through, and only for the literal/length and distance codes); "bad"
\* (over-subscribed, or incomplete otherwise).
CodeSetKind(lens) ==
  LET used == CodeSpace(lens, MAXBITS)
  IN  IF used = 0 THEN "none"
      ELSE IF used = Pow2(MAXBITS) THEN "complete"
      ELSE IF used = Pow2(MAXBITS - 1) /\ CodeCount(lens, 1) = 1 THEN "single"
      ELSE "bad"

\* The decoding table of a set of lengths: for each length the number of
\* codes, the first code, and the symbols in the order of their codes.
CodeTable(lens) ==
  [count |-> [l \in 1..MAXBITS |-> CodeCount(lens, l)],
   first |-> [l \in 1..MAXBITS |-> FirstCode(lens, l)],
   syms  |-> [l \in 1..MAXBITS |->
               LET OfLength(s) == lens[s + 1] = l
               IN  SelectSeq([s \in 1..Len(lens) |-> s - 1], OfLength)]]

\* The symbol whose code starts at bit k, and the length of that code; Raise
\* when the bits are no code of the table or the input ends within the code.
SymbolOfCode(tab, l, code) ==
  Ok([sym |-> tab.syms[l][code - tab.first[l] + 1], bits |-> l])

ShortestCode(tab, b, k, ls) ==
  IF ls = {} THEN Raise
  ELSE \* the shortest length whose bits are a code
       SymbolOfCode(tab, CHOOSE x \in ls : \A y \in ls : x <= y,
                    BitsMSB(b, k, CHOOSE x \in ls : \A y \in ls : x <= y))

HuffDecode(tab, b, k) ==
  ShortestCode(tab, b, k,
               {l \in 1..MAXBITS :
                  /\ k + l <= 8 * Len(b)
                  /\ BitsMSB(b, k, l) >= tab.first[l]
                  /\ BitsMSB(b, k, l) - tab.first[l] < tab.count[l]})

\* Match lengths of the symbols 257..285 and the distances of the symbols
\* 0..29: base value and number of extra bits.
LengthBase ==
  <<3, 4, 5, 6, 7, 8, 9, 10, 11, 13, 15, 17, 19, 23, 27, 31, 35, 43, 51, 59,
    67, 83, 99, 115, 131, 163, 195, 227, 258>>
LengthExtra ==
  <<0, 0, 0, 0, 0, 0, 0, 0, 1, 1, 1, 1, 2, 2, 2, 2, 3, 3, 3, 3,
    4, 4, 4, 4, 5, 5, 5, 5, 0>>
DistBase ==
  <<1, 2, 3, 4, 5, 7, 9, 13, 17, 25, 33, 49, 65, 97, 129, 193, 257, 385, 513,
    769, 1025, 1537, 2049, 3073, 4097, 6145, 8193, 12289, 16385, 24577>>
DistExtra ==
  <<0, 0, 0, 0, 1, 1, 2, 2, 3, 3, 4, 4, 5, 5, 6, 6, 7, 7, 8, 8,
    9, 9, 10, 10, 11, 11, 12, 12, 13, 13>>

\* The order in which a dynamic block lists the lengths of the code length
\* code.
ClenOrder == <<16, 17, 18, 0, 8, 7, 9, 6, 10, 5, 11, 4, 12, 3, 13, 2, 14, 1, 15>>

\* The codes of a fixed block.  The literal/length symbols 286 and 287 and
\* the distance symbols 30 and 31 have codes and no meaning.
FixedLens ==
  [s \in 1..288 |-> IF s <= 144 THEN 8 ELSE IF s <= 256 THEN 9
                    ELSE IF s <= 280 THEN 7 ELSE 8]
FixedDists == [s \in 1..32 |-> 5]

\* The state of inflate: where it is (mode: "head" before a block, "lens"
\* within the code lengths of a dynamic block, "codes" within the data of a
\* Huffman block, "done", "err"), the next bit, the output so far, whether
\* the block is the last, and the decoding tables of the block.
InflateState(pos, out) ==
  [mode |-> "head", pos |-> pos, out |-> out, final |-> FALSE,
   lens |-> <<>>, dists |-> <<>>, nlen |-> 0, ndist |-> 0,
   clens |-> <<>>, have |-> <<>>]

Failed(st) == [st EXCEPT !.mode = "err"]

\* A stored block, p being the bit after the block header: on to the next
\* byte, LEN and NLEN (the complement of LEN), LEN bytes.
StoredBlock(b, st, final, p) ==
  LET j == ((p + 7) \div 8) + 1
  IN  IF j + 3 > Len(b) THEN Failed(st)
      ELSE LET len  == b[j] + 256 * b[j + 1]
               nlen == b[j + 2] + 256 * b[j + 3]
           IN  IF len + nlen # 65535 \/ j + 3 + len > Len(b) THEN Failed(st)
               ELSE [st EXCEPT !.mode = IF final THEN "done" ELSE "head",
                               !.final = final,
                               !.pos = 8 * (j + 3 + len),
                               !.out = st.out \o SubSeq(b, j + 4, j + 3 + len)]

\* The header of a dynamic block, p being the bit after the block header:
\* the numbers of literal/length, distance and code length codes, then the
\* lengths of the code length code, which must be a complete set.
DynamicHeader(b, st, final, p) ==
  IF p + 14 > 8 * Len(b) THEN Failed(st)
  ELSE LET nlen  == BitsLE(b, p, 5) + 257
           ndist == BitsLE(b, p + 5, 5) + 1
           ncode == BitsLE(b, p + 10, 4) + 4
           clens == [s \in 1..19 |->
                      LET at == {i \in 1..ncode : ClenOrder[i] = s - 1}
                      IN  IF at = {} THEN 0
                          ELSE BitsLE(b, p + 14 + 3 * ((CHOOSE i \in at : TRUE) - 1), 3)]
       IN  IF nlen > 286 \/ ndist > 30 THEN Failed(st)
           ELSE IF p + 14 + 3 * ncode > 8 * Len(b) THEN Failed(st)
           ELSE IF CodeSetKind(clens) # "complete" THEN Failed(st)
           ELSE [st EXCEPT !.mode = "lens", !.final = final,
                           !.pos = p + 14 + 3 * ncode,
                           !.nlen = nlen, !.ndist = ndist,
                           !.clens = CodeTable(clens), !.have = <<>>]

\* A block header: the last-block bit and the block type.
StepHead(b, st) ==
  IF st.pos + 3 > 8 * Len(b) THEN Failed(st)
  ELSE LET final == BitAt(b, st.pos) = 1
           btype == BitsLE(b, st.pos + 1, 2)
       IN  IF btype = 0 THEN StoredBlock(b, st, final, st.pos + 3)
           ELSE IF btype = 1
             THEN [st EXCEPT !.mode = "codes", !.final = final, !.pos = st.pos + 3,
                             !.lens = CodeTable(FixedLens),
                             !.dists = CodeTable(FixedDists)]
           ELSE IF btype = 2 THEN DynamicHeader(b, st, final, st.pos + 3)
           ELSE Failed(st)

\* All code lengths of a dynamic block are read: the end-of-block symbol must
\* have a code, and both sets must pass inflate_table.
EndOfLengths(st) ==
  LET lens  == SubSeq(st.have, 1, st.nlen)
      dists == SubSeq(st.have, st.nlen + 1, st.nlen + st.ndist)
  IN  IF lens[257] = 0 THEN Failed(st)
      ELSE IF CodeSetKind(lens) \notin {"complete", "single"} THEN Failed(st)
      ELSE IF CodeSetKind(dists) = "bad" THEN Failed(st)
      ELSE [st EXCEPT !.mode = "codes", !.lens = CodeTable(lens),
                      !.dists = CodeTable(dists)]

\* One symbol of the code length code: a length 0..15, or a repeat of the
\* last length (16) or of zeros (17, 18).
LensAppended(st, next) ==
  IF Len(next.have) < st.nlen + st.ndist THEN next ELSE EndOfLengths(next)

LensDecoded(b, st, d) ==
  IF ~d.ok THEN Failed(st)
  ELSE LET sym == d.val.sym
           p   == st.pos + d.val.bits
           ext == IF sym = 16 THEN 2 ELSE IF sym = 17 THEN 3
                  ELSE IF sym = 18 THEN 7 ELSE 0
           rep == IF sym < 16 THEN 1
                  ELSE (IF sym = 18 THEN 11 ELSE 3) + BitsLE(b, p, ext)
           val == IF sym < 16 THEN sym
                  ELSE IF sym = 16 THEN st.have[Len(st.have)] ELSE 0
       IN  IF p + ext > 8 * Len(b) THEN Failed(st)
           ELSE IF sym = 16 /\ st.have = <<>> THEN Failed(st)
           ELSE IF Len(st.have) + rep > st.nlen + st.ndist THEN Failed(st)
           ELSE LensAppended(st, [st EXCEPT
                                   !.pos = p + ext,
                                   !.have = st.have \o [i \in 1..rep |-> val]])

StepLens(b, st) == LensDecoded(b, st, HuffDecode(st.clens, b, st.pos))

\* A match, sym being its length symbol and p the bit after that: the extra
\* bits of the length, the distance symbol and its extra bits; the distance
\* may not reach before the start of the output.
\* len bytes from dist back in the output, the copy running into itself
\* when len > dist.
Copied(st, len, dist, p) ==
  IF dist > Len(st.out) THEN Failed(st)
  ELSE [st EXCEPT
         !.pos = p,
         !.out = st.out \o
           [i \in 1..len |-> st.out[Len(st.out) - dist + ((i - 1) % dist) + 1]]]

MatchDecoded(b, st, len, p, d) ==
  IF ~d.ok THEN Failed(st)
  ELSE IF d.val.sym > 29 THEN Failed(st)
  ELSE LET q  == p + d.val.bits
           de == DistExtra[d.val.sym + 1]
       IN  IF q + de > 8 * Len(b) THEN Failed(st)
           ELSE Copied(st, len, DistBase[d.val.sym + 1] + BitsLE(b, q, de), q + de)

Match(b, st, sym, p) ==
  IF p + LengthExtra[sym - 256] > 8 * Len(b) THEN Failed(st)
  ELSE MatchDecoded(b, st,
         LengthBase[sym - 256] + BitsLE(b, p, LengthExtra[sym - 256]),
         p + LengthExtra[sym - 256],
         HuffDecode(st.dists, b, p + LengthExtra[sym - 256]))

\* One symbol of a Huffman block: a literal, the end of the block, a match.
CodeDecoded(b, st, d) ==
  IF ~d.ok THEN Failed(st)
  ELSE LET sym == d.val.sym
           p   == st.pos + d.val.bits
       IN  IF sym < 256 THEN [st EXCEPT !.pos = p, !.out = Append(st.out, sym)]
           ELSE IF sym = 256
             THEN [st EXCEPT !.pos = p,
                             !.mode = IF st.final THEN "done" ELSE "head"]
           ELSE IF sym > 285 THEN Failed(st)
           ELSE Match(b, st, sym, p)

StepCodes(b, st) == CodeDecoded(b, st, HuffDecode(st.lens, b, st.pos))

InflateStep(b, st) ==
  IF st.mode = "head" THEN StepHead(b, st)
  ELSE IF st.mode = "lens" THEN StepLens(b, st)
  ELSE IF st.mode = "codes" THEN StepCodes(b, st)
  ELSE st

\* At most n steps from st.  The steps are halved, which keeps the
\* evaluation shallow.
RECURSIVE InflateRun(_, _, _)
InflateRun(b, st, n) ==
  IF ~Forced(st) THEN st
  ELSE IF st.mode \in {"done", "err"} \/ n = 0 THEN st
  ELSE IF n = 1 THEN InflateStep(b, st)
  ELSE InflateRun(b, InflateRun(b, st, n \div 2), n - (n \div 2))

\* The deflate stream starting at byte b[i]: the data (after acc) and the
\* index of the byte after the stream.  Every step takes at least one bit.
Inflated(st) ==
  IF st.mode = "done"
    THEN Ok([data |-> st.out, next |-> ((st.pos + 7) \div 8) + 1])
  ELSE Raise

Inflate(b, i, acc) ==
  Inflated(InflateRun(b, InflateState(8 * (i - 1), acc), 8 * Len(b) + 1))

\* ---- the gzip wrapper (RFC 1952, as inflate.c reads it)
HasFlag(b, f) == (b[4] \div f) % 2 = 1

\* The optional header fields, each taking the index p of its first byte to
\* the index after it; 0 when the input ends within the field.
\* FEXTRA (flag 4): a little-endian length and as many bytes.
SkipExtra(b, p) ==
  IF p = 0 \/ ~HasFlag(b, 4) THEN p
  ELSE IF p + 1 > Len(b) THEN 0
  ELSE IF p + 2 + b[p] + 256 * b[p + 1] > Len(b) + 1 THEN 0
  ELSE p + 2 + b[p] + 256 * b[p + 1]

\* FNAME (flag 8) and FCOMMENT (flag 16): bytes up to a zero byte.
SkipString(b, f, p) ==
  IF p = 0 \/ ~HasFlag(b, f) THEN p
  ELSE LET z == {i \in p..Len(b) : b[i] = 0}
       IN  IF z = {} THEN 0 ELSE (CHOOSE i \in z : \A j \in z : i <= j) + 1

\* FHCRC (flag 2): the low 16 bits of the CRC-32 of the header before it.
CheckHeaderCrc(b, p) ==
  IF p = 0 \/ ~HasFlag(b, 2) THEN p
  ELSE IF p + 1 > Len(b) THEN 0
  ELSE IF <<b[p], b[p + 1]>> # SubSeq(Crc32Bytes(SubSeq(b, 1, p - 1)), 1, 2) THEN 0
  ELSE p + 2

\* zlib.decompress(binary_data, 16 + zlib.MAX_WBITS): a gzip member only (a
\* zlib or raw deflate header is "incorrect header check"): magic 1f 8b,
\* method 8, none of the reserved flags 32, 64, 128, the optional header
\* fields, the deflate stream, then CRC-32 and ISIZE, both checked.  Bytes
\* after the trailer are ignored; a stream that ends early is an error.
\* The trailer at b[at..at + 7]: the CRC-32 and the length of data.
GzipTrailer(b, at, data) ==
  IF at + 7 > Len(b) THEN Raise
  ELSE IF SubSeq(b, at, at + 3) # Crc32Bytes(data) THEN Raise
  ELSE IF SubSeq(b, at + 4, at + 7) # ISizeBytes(Len(data)) THEN Raise
  ELSE Ok(data)

\* The member after its header, start being the first byte of the deflate
\* stream, 0 for a header that is cut short or fails its check, and r what
\* inflate makes of the stream.
GzipBody(b, start, r) ==
  IF start = 0 \/ ~r.ok THEN Raise ELSE GzipTrailer(b, r.val.next, r.val.data)

\* The first byte after the header fields, or 0.
GzipHeaderEnd(b) ==
  CheckHeaderCrc(b, SkipString(b, 16, SkipString(b, 8, SkipExtra(b, 11))))

ZlibDecompress(b) ==
  IF Len(b) < 10 \/ b[1] # 31 \/ b[2] # 139 \/ b[3] # 8 \/ b[4] >= 32 THEN Raise
  ELSE GzipBody(b, GzipHeaderEnd(b), Inflate(b, GzipHeaderEnd(b), <<>>))

\* A gzip member holding data in one stored block, as
\* zlib.compressobj(0, zlib.DEFLATED, 16 + zlib.MAX_WBITS) writes it.
GzipCompress(data) ==
  <<31, 139, 8, 0, 0, 0, 0, 0, 4, 3>>
    \o <<1, Len(data) % 256, Len(data) \div 256,
         255 - (Len(data) % 256), 255 - (Len(data) \div 256)>>
    \o data \o Crc32Bytes(data) \o ISizeBytes(Len(data))

\* The bits of one fixed block holding data as literals: the block header
\* (last block, type 01), the code of each byte (8 bits from 00110000 up to
\* byte 143, 9 bits from 110010000 from byte 144), the end-of-block code
\* (seven zeros).
LiteralBits(v) ==
  IF v < 144 THEN [i \in 1..8 |-> ((48 + v) \div Pow2(8 - i)) % 2]
  ELSE [i \in 1..9 |-> ((400 + (v - 144)) \div Pow2(9 - i)) % 2]

\* The codes of data[lo..hi], one after the other.
RECURSIVE LiteralRange(_, _, _)
LiteralRange(data, lo, hi) ==
  IF lo > hi THEN <<>>
  ELSE IF lo = hi THEN LiteralBits(data[lo])
  ELSE LiteralRange(data, lo, (lo + hi) \div 2)
         \o LiteralRange(data, ((lo + hi) \div 2) + 1, hi)

FixedBlockBits(data) ==
  <<1, 1, 0>> \o LiteralRange(data, 1, Len(data)) \o <<0, 0, 0, 0, 0, 0, 0>>

\* Bits, each byte filled from its least significant bit, the last byte
\* filled up with zeros.
PackBits(bits) ==
  [m \in 1..((Len(bits) + 7) \div 8) |->
    BitsValue([j \in 1..8 |-> IF 8 * (m - 1) + j <= Len(bits)
                              THEN bits[8 * (m - 1) + j] ELSE 0])]

\* A gzip member holding data in one fixed Huffman block of literals, as
\* gzip.compress(data, mtime=0) writes a short text without repeats.
GzipCompressFixed(data) ==
  <<31, 139, 8, 0, 0, 0, 0, 0, 2, 3>>
    \o PackBits(FixedBlockBits(data)) \o Crc32Bytes(data) \o ISizeBytes(Len(data))

\* The Secure QR payload of a text: gzip its UTF-8 bytes (level: "stored" or
\* "fixed"), read them as a big-endian integer, write the integer in decimal.
GzipLevels == {"stored", "fixed"}
SecureNumericPayload(t, level) ==
  IntToStr(from_bytes(IF level = "stored" THEN GzipCompress(Utf8Encode(t))
                      ELSE GzipCompressFixed(Utf8Encode(t))))

\* ------------------------------------------------------- decode_secure_qr
\* Lines 99-106.  The try block is four steps, each of which may raise; the
\* bare except answers with data_bytes.decode("utf-8"), which may raise
\* UnicodeDecodeError out of the function.
\* Line 104, decompressed being what line 103 made of binary_data.
SecureText(decompressed) ==
  IF ~decompressed.ok THEN Raise ELSE Ok(Latin1Decode(decompressed.val))

\* Line 103, binary_data being what lines 101-102 made of big_int.
SecureDecompressed(binary_data) ==
  IF ~binary_data.ok THEN Raise ELSE SecureText(ZlibDecompress(binary_data.val))

\* Lines 101-102, big_int being what line 100 made of the text.
SecureBytes(big_int) ==
  IF ~big_int.ok THEN Raise ELSE SecureDecompressed(IntToBytes(big_int.val))

\* Line 100, s being data_bytes.decode('utf-8').
SecureInt(s) == IF ~s.ok THEN Raise ELSE SecureBytes(ParseInt(s.val))

SecureSteps(data_bytes) == SecureInt(Utf8Decode(data_bytes))

\* A decoder without the except branch of lines 105-106.
DecodeWithoutFallback(data_bytes) == SecureSteps(data_bytes)

\* Lines 105-106: what the try block made, or the except branch.
ExceptFallback(secure, data_bytes) ==
  IF secure.ok THEN secure ELSE Utf8Decode(data_bytes)

decode_secure_qr(data_bytes) ==
  ExceptFallback(SecureSteps(data_bytes), data_bytes)

\* ---------------------------------------------------- calculate_exact_age
\* str.split(sep) for a one-character sep: the parts between the separators.
Split(s, sep) ==
  LET at    == SortedSeq({i \in 1..Len(s) : s[i] = sep})
      lo(j) == IF j = 1 THEN 1 ELSE at[j - 1] + 1
      hi(j) == IF j > Len(at) THEN Len(s) ELSE at[j] - 1
  IN  [j \in 1..(Len(at) + 1) |-> SubSeq(s, lo(j), hi(j))]

\* The value of a Python int for datetime(): an int beyond two base-256 digits
\* is out of datetime's range whatever it is, and is capped at 65536.
SmallValue(n) ==
  LET v == IF Len(n.mag) > 2 THEN 65536
           ELSE IF Len(n.mag) = 2 THEN 256 * n.mag[1] + n.mag[2]
           ELSE IF Len(n.mag) = 1 THEN n.mag[1] ELSE 0
  IN  IF n.neg THEN 0 - v ELSE v

\* a, b, c = map(int, parts): ValueError unless there are three parts and
\* int() takes each.
UnpackInts(parts) ==
  IF Len(parts) # 3 THEN Raise
  ELSE LET ints == [j \in 1..3 |-> ParseInt(parts[j])]
       IN  IF \E j \in 1..3 : ~ints[j].ok THEN Raise
           ELSE Ok([j \in 1..3 |-> SmallValue(ints[j].val)])

IsLeap(y) == y % 4 = 0 /\ (y % 100 # 0 \/ y % 400 = 0)

DaysInMonth(y, m) ==
  IF m = 2 THEN (IF IsLeap(y) THEN 29 ELSE 28)
  ELSE IF m \in {4, 6, 9, 11} THEN 30 ELSE 31

\* datetime(year, month, day) at line 86 raises ValueError outside these.
DateValid(year, month, day) ==
  /\ year \in 1..9999
  /\ month \in 1..12
  /\ day \in 1..DaysInMonth(year, month)

\* Lines 77-84: which group is the year.  With neither separator, year is an
\* unbound name at line 86 (NameError).
DobFields(dob_string) ==
  IF \E i \in 1..Len(dob_string) : dob_string[i] = 45
    THEN LET parts == Split(dob_string, 45)
             ints  == UnpackInts(parts)
         IN  IF ~ints.ok THEN Raise
             ELSE IF Len(parts[1]) = 4
               THEN Ok([year |-> ints.val[1], month |-> ints.val[2], day |-> ints.val[3]])
             ELSE Ok([year |-> ints.val[3], month |-> ints.val[2], day |-> ints.val[1]])
  ELSE IF \E i \in 1..Len(dob_string) : dob_string[i] = 47
    THEN LET ints == UnpackInts(Split(dob_string, 47))
         IN  IF ~ints.ok THEN Raise
             ELSE Ok([year |-> ints.val[3], month |-> ints.val[2], day |-> ints.val[1]])
  ELSE Raise

\* Line 90: (today.month, today.day) < (birth_date.month, birth_date.day).
BirthdayNotYetOrToday(today, birth) ==
  \/ today.month < birth.month
  \/ today.month = birth.month /\ today.day <= birth.day

BirthdayNotYet(today, birth) ==
  \/ today.month < birth.month
  \/ today.month = birth.month /\ today.day < birth.day

\* Lines 76-95, with today the value of datetime.now(): the bare except
\* answers 0 for everything the try block raises.
calculate_exact_age(dob_string, today) ==
  LET f == DobFields(dob_string)
  IN  IF ~f.ok THEN 0
      ELSE IF ~DateValid(f.val.year, f.val.month, f.val.day) THEN 0
      ELSE (today.year - f.val.year)
             - (IF BirthdayNotYet(today, f.val) THEN 1 ELSE 0)

\* ------------------------------------------------------------- re.search
\* A date pattern is the lengths of its three digit groups, which single
\* hyphens separate: [0-9]{a}-[0-9]{b}-[0-9]{c}.
PatDMY == <<2, 2, 4>>
PatYMD == <<4, 2, 2>>
PatLen(pat) == pat[1] + pat[2] + pat[3] + 2

MatchesAt(pat, text, i) ==
  /\ i + PatLen(pat) - 1 <= Len(text)
  /\ \A j \in 0..(PatLen(pat) - 1) :
       IF j = pat[1] \/ j = pat[1] + pat[2] + 1
         THEN text[i + j] = 45
         ELSE text[i + j] \in 48..57

NoMatch == [ok |-> FALSE, val |-> <<>>]

\* re.search(pattern, text): the leftmost match, or None.
re_search(pat, text) ==
  LET hits == {i \in 1..Len(text) : MatchesAt(pat, text, i)}
  IN  IF hits = {} THEN NoMatch
      ELSE LET i == CHOOSE h \in hits : \A g \in hits : h <= g
           IN  Ok(SubSeq(text, i, i + PatLen(pat) - 1))

\* Lines 135-137 the other way round: YYYY-MM-DD first.
FindDobYmdFirst(text_data) ==
  LET match == re_search(PatYMD, text_data)
  IN  IF match.ok THEN match ELSE re_search(PatDMY, text_data)

\* Lines 135-137: DD-MM-YYYY first, YYYY-MM-DD only without such a match.
FindDob(text_data) ==
  LET match == re_search(PatDMY, text_data)
  IN  IF match.ok THEN match ELSE re_search(PatYMD, text_data)

\* ------------------------------------------------------------ the inputs
Dig2(n) == <<48 + (n \div 10), 48 + (n % 10)>>
Dig4(n) == Dig2(n \div 100) \o Dig2(n % 100)

\* The text of a date in the two layouts of the QR records.
DMY(d, m, y) == Dig2(d) \o <<45>> \o Dig2(m) \o <<45>> \o Dig4(y)
YMD(y, m, d) == Dig4(y) \o <<45>> \o Dig2(m) \o <<45>> \o Dig2(d)

Date(y, m, d) == [year |-> y, month |-> m, day |-> d]
NoDate == Date(0, 0, 0)

\* Values of datetime.now(): around a birthday of 15 March, at both ends of
\* a year, on a leap day, and where a 2010 birth comes of age.
Todays ==
  {Date(2024, 3, 14), Date(2024, 3, 15), Date(2024, 1, 1), Date(2024, 12, 31),
   Date(2024, 2, 29), Date(2028, 3, 15)}

\* What the barcode reader can find in an image.  A symbol is written by its
\* encoding and its content: "legacy" is the UTF-8 bytes of a text, "stored"
\* and "fixed" the Secure QR decimal integer of a text at that gzip level,
\* "raw" the bytes as given.
Symbols ==
  {[enc |-> "legacy", content |-> DMY(15, 3, 2010)],
   [enc |-> "legacy", content |-> YMD(2000, 1, 1)],
   [enc |-> "legacy", content |-> DMY(99, 99, 9999)],
   [enc |-> "legacy", content |-> <<68, 79, 66>>],
   [enc |-> "raw",    content |-> <<255>>],
   [enc |-> "raw",    content |-> <<49, 50, 51, 52, 53>>],
   [enc |-> "stored", content |-> DMY(31, 12, 2011)],
   [enc |-> "fixed",  content |-> <<68, 79, 66, 32>> \o DMY(31, 12, 2011)],
   [enc |-> "legacy", content |-> YMD(2010, 3, 15) \o <<32>> \o DMY(1, 1, 2000)]}

PayloadOf(sym) ==
  IF sym.enc = "legacy" THEN Utf8Encode(sym.content)
  ELSE IF sym.enc \in GzipLevels THEN SecureNumericPayload(sym.content, sym.enc)
  ELSE sym.content

\* pyzbar.decode on one image variant: the symbols found, in order.
LocatorResults == UNION {[1..n -> Symbols] : n \in 0..MaxSymbols}

\* The upload: an encoded image, bytes that are no image, no bytes, or a file
\* whose read() raises.
Uploads == {"image", "garbage", "empty", "unreadable"}

\* cv2.imdecode at line 44: the pixel grid of an image, None for bytes that
\* are no image; for an empty buffer None or cv2.error, by OpenCV version.
imdecode(u) ==
  IF u = "image" THEN {"img"}
  ELSE IF u = "garbage" THEN {"none"}
  ELSE {"none", "raise"}

\* Lines 53-68, top to bottom.
VariantOrder == <<"Original", "Sharpened", "HighContrastBinary", "Rotated90CW">>

\* "if decoded: return decoded" at lines 54, 59, 63 and 68.
ScanNeverStops(decoded) == FALSE
ScanStops(decoded) == decoded # <<>>

\* The try/except around smart_scan's body (lines 43, 71-72).
SmartScanLetsThrough == FALSE
SmartScanCatches == TRUE

\* The responses (lines 129, 145-148, 155, 159).
MsgNoQr == "No QR code detected."
MsgDobUnreadable == "Could not verify age from this QR."
MsgInternal == "Internal processing error."
Failure(msg) == [success |-> FALSE, message |-> msg]
SuccessResponseWithAge(a) == [success |-> TRUE, is_under_18 |-> a < 18, age |-> a]
SuccessResponse(a) == [success |-> TRUE, is_under_18 |-> a < 18]
NoResponse == [success |-> FALSE, message |-> ""]

\* ------------------------------------------------------------- the state
VARIABLES
  pc,               \* where the request is
  upload,           \* what was uploaded
  scanned,          \* smart_scan: the variants scanned so far, with what each held
  decoded_objects,  \* line 122: the payloads smart_scan returned (<<>>: None)
  idx,              \* line 131: the symbol the for loop is at
  text_data,        \* line 133: the text of the last symbol decoded
  dob,              \* line 140
  now,              \* line 87: datetime.now()
  age,              \* line 141
  response,         \* what the request returned
  arg,              \* the input of a function applied on its own
  ret               \* and its result

vars == <<pc, upload, scanned, decoded_objects, idx, text_data, dob, now, age,
          response, arg, ret>>

Init ==
  /\ pc = "idle"
  /\ upload = "none"
  /\ scanned = <<>>
  /\ decoded_objects = <<>>
  /\ idx = 0
  /\ text_data = <<>>
  /\ dob = <<>>
  /\ now = NoDate
  /\ age = 0
  /\ response = NoResponse
  /\ arg = <<>>
  /\ ret = <<>>

\* POST /verify arrives with a file.
Request ==
  /\ pc = "idle"
  /\ \E u \in Uploads : upload' = u
  /\ pc' = "read"
  /\ UNCHANGED <<scanned, decoded_objects, idx, text_data, dob, now, age, response,
                 arg, ret>>

\* Line 119: file.file.read(); an exception here reaches line 157.
ReadUpload ==
  /\ pc = "read"
  /\ IF upload = "unreadable"
       THEN pc' = "done" /\ response' = Failure(MsgInternal)
       ELSE pc' = "imdecode" /\ UNCHANGED response
  /\ UNCHANGED <<upload, scanned, decoded_objects, idx, text_data, dob, now, age,
                 arg, ret>>

\* Lines 44-47 and 71-72: no image, no scan.
ImDecode ==
  /\ pc = "imdecode"
  /\ \E r \in imdecode(upload) :
       IF r = "img" THEN pc' = "scan" /\ UNCHANGED response
       ELSE IF r = "none" \/ SmartScanCatches THEN pc' = "found" /\ UNCHANGED response
       ELSE pc' = "done" /\ response' = Failure(MsgInternal)
  /\ UNCHANGED <<upload, scanned, decoded_objects, idx, text_data, dob, now, age,
                 arg, ret>>

\* Lines 53-70: the next variant is made and scanned; smart_scan returns what
\* it held if that is anything, and None after the last variant.  Lines
\* 71-72: a call of OpenCV or of the barcode reader may raise on any variant,
\* and smart_scan then returns None at once.
ScanVariant ==
  /\ pc = "scan"
  /\ Len(scanned) < Len(VariantOrder)
  /\ \/ \E found \in LocatorResults :
          \E decoded \in {[i \in 1..Len(found) |-> PayloadOf(found[i])]} :
            /\ scanned' = Append(scanned,
                            [variant |-> VariantOrder[Len(scanned) + 1],
                             found |-> found, raised |-> FALSE])
            /\ IF ScanStops(decoded)
                 THEN decoded_objects' = decoded /\ pc' = "found"
               ELSE IF Len(scanned') = Len(VariantOrder)
                 THEN decoded_objects' = <<>> /\ pc' = "found"
               ELSE UNCHANGED <<decoded_objects, pc>>
            /\ UNCHANGED response
     \/ /\ scanned' = Append(scanned,
                         [variant |-> VariantOrder[Len(scanned) + 1],
                          found |-> <<>>, raised |-> TRUE])
        /\ IF SmartScanCatches
             THEN decoded_objects' = <<>> /\ pc' = "found" /\ UNCHANGED response
           ELSE /\ pc' = "done"
                /\ response' = Failure(MsgInternal)
                /\ UNCHANGED decoded_objects
  /\ UNCHANGED <<upload, idx, text_data, dob, now, age, arg, ret>>

\* Line 131: the for loop has no symbol left.
LoopDoneAfterFirst == idx > 1
LoopDone == idx > Len(decoded_objects)

\* Lines 127-131.
CheckFound ==
  /\ pc = "found"
  /\ IF decoded_objects = <<>>
       THEN pc' = "done" /\ response' = Failure(MsgNoQr) /\ UNCHANGED idx
       ELSE pc' = "loop" /\ idx' = 1 /\ UNCHANGED response
  /\ UNCHANGED <<upload, scanned, decoded_objects, text_data, dob, now, age, arg, ret>>

\* Lines 131-152, one symbol: an exception of decode_secure_qr is caught at
\* line 150 and the loop goes on; so it does without a match; with one, the
\* request returns.
ProcessSymbol ==
  /\ pc = "loop"
  /\ ~LoopDone
  /\ \E text \in {decode_secure_qr(decoded_objects[idx])} :
       IF ~text.ok
         THEN idx' = idx + 1 /\ UNCHANGED <<pc, text_data, dob, now, age, response>>
       ELSE \E match \in {FindDob(text.val)} :
              IF ~match.ok
                THEN /\ idx' = idx + 1
                     /\ text_data' = text.val
                     /\ UNCHANGED <<pc, dob, now, age, response>>
              ELSE \E today \in Todays :
                     /\ text_data' = text.val
                     /\ dob' = match.val
                     /\ now' = today
                     /\ age' = calculate_exact_age(match.val, today)
                     /\ response' = SuccessResponse(age')
                     /\ pc' = "done"
                     /\ UNCHANGED idx
  /\ UNCHANGED <<upload, scanned, decoded_objects, arg, ret>>

\* Lines 154-155: the loop ran out of symbols.
LoopExhausted ==
  /\ pc = "loop"
  /\ LoopDone
  /\ pc' = "done"
  /\ response' = Failure(MsgDobUnreadable)
  /\ UNCHANGED <<upload, scanned, decoded_objects, idx, text_data, dob, now, age,
                 arg, ret>>

Next ==
  \/ Request
  \/ ReadUpload
  \/ ImDecode
  \/ ScanVariant
  \/ CheckFound
  \/ ProcessSymbol
  \/ LoopExhausted

Spec == Init /\ [][Next]_vars

\* --------------------------------------------- the functions on their own
\* Each specification below draws the inputs of one function from a bounded
\* set and applies the function.
Idle ==
  /\ upload = "none"
  /\ scanned = <<>>
  /\ idx = 0
  /\ response = NoResponse
  /\ ret = <<>>

\* decode_secure_qr on the Secure QR payload of a text.
TextAlphabet == {45, 49, 65, 233, 255, 8364}
LongTexts == {[i \in 1..n |-> 65] : n \in {LongTextLen - 1, LongTextLen}}
Texts == UNION {[1..n -> TextAlphabet] : n \in 0..MaxTextLen} \cup LongTexts

CodecInit ==
  /\ Idle
  /\ pc = "text"
  /\ arg \in Texts
  /\ decoded_objects = <<>>
  /\ text_data = <<>>
  /\ dob = <<>>
  /\ now = NoDate
  /\ age = 0

Encode ==
  /\ pc = "text"
  /\ \E level \in GzipLevels :
       \E payload \in {SecureNumericPayload(arg, level)} :
         decoded_objects' = <<payload>>
  /\ pc' = "payload"
  /\ UNCHANGED <<upload, scanned, idx, text_data, dob, now, age, response, arg, ret>>

Decode ==
  /\ pc = "payload"
  /\ \E text \in {decode_secure_qr(decoded_objects[1])} :
       /\ text.ok
       /\ text_data' = text.val
  /\ pc' = "decoded"
  /\ UNCHANGED <<upload, scanned, decoded_objects, idx, dob, now, age, response,
                 arg, ret>>

CodecNext == Encode \/ Decode

SpecCodec == CodecInit /\ [][CodecNext]_vars

\* Lines 100-102 on the decimal text of an integer.
SmallInts == (0..MaxSmallInt) \cup {65535, 65536, 16777215, 16777216}

\* str(n) for a TLC integer n >= 0.
DecimalStr(n) ==
  LET len == Cardinality({k \in 1..9 : Pow10(k) <= n}) + 1
  IN  [i \in 1..len |-> 48 + ((n \div Pow10(len - i)) % 10)]

BytesInit ==
  /\ Idle
  /\ pc = "int"
  /\ arg \in SmallInts
  /\ decoded_objects = <<>>
  /\ text_data = <<>>
  /\ dob = <<>>
  /\ now = NoDate
  /\ age = 0

Convert ==
  /\ pc = "int"
  /\ ret' = IntToBytes(ParseInt(DecimalStr(arg)).val)
  /\ pc' = "bytes"
  /\ UNCHANGED <<upload, scanned, decoded_objects, idx, text_data, dob, now, age,
                 response, arg>>

BytesNext == Convert

SpecBytes == BytesInit /\ [][BytesNext]_vars

\* calculate_exact_age and the response made of its result.  A birth is
\* <<day, month, year>>; some are no calendar dates.
Births ==
  {<<15, 3, 2010>>, <<1, 1, 2000>>, <<29, 2, 2008>>, <<31, 12, 2006>>,
   <<14, 3, 2006>>, <<15, 3, 2006>>, <<1, 1, 2030>>, <<29, 2, 2001>>,
   <<99, 99, 9999>>, <<0, 1, 2000>>, <<15, 3, 0>>, <<31, 4, 2000>>}

Layouts == {"DMY", "YMD"}

DobText(birth, layout) ==
  IF layout = "DMY" THEN DMY(birth[1], birth[2], birth[3])
  ELSE YMD(birth[3], birth[2], birth[1])

AgeInit ==
  /\ Idle
  /\ pc = "dob"
  /\ arg \in [birth : Births, layout : Layouts]
  /\ dob = DobText(arg.birth, arg.layout)
  /\ now \in Todays
  /\ decoded_objects = <<>>
  /\ text_data = <<>>
  /\ age = 0

CalcAge ==
  /\ pc = "dob"
  /\ age' = calculate_exact_age(dob, now)
  /\ pc' = "age"
  /\ UNCHANGED <<upload, scanned, decoded_objects, idx, text_data, dob, now,
                 response, arg, ret>>

Respond ==
  /\ pc = "age"
  /\ response' = SuccessResponse(age)
  /\ pc' = "done"
  /\ UNCHANGED <<upload, scanned, decoded_objects, idx, text_data, dob, now, age,
                 arg, ret>>

AgeNext == CalcAge \/ Respond

SpecAge == AgeInit /\ [][AgeNext]_vars

\* Lines 135-137 on texts put together from dates and other pieces.
Pieces == {DMY(15, 3, 2010), YMD(2001, 2, 3), <<120>>, <<55>>, <<45>>}

RECURSIVE Concat(_)
Concat(ps) == IF ps = <<>> THEN <<>> ELSE Head(ps) \o Concat(Tail(ps))

DateInit ==
  /\ Idle
  /\ pc = "text"
  /\ arg \in UNION {[1..n -> Pieces] : n \in 0..MaxPieces}
  /\ text_data = Concat(arg)
  /\ decoded_objects = <<>>
  /\ dob = <<>>
  /\ now = NoDate
  /\ age = 0

Search ==
  /\ pc = "text"
  /\ \E match \in {FindDob(text_data)} :
       IF match.ok THEN dob' = match.val /\ pc' = "match"
       ELSE dob' = <<>> /\ pc' = "nomatch"
  /\ UNCHANGED <<upload, scanned, decoded_objects, idx, text_data, now, age,
                 response, arg, ret>>

DateNext == Search

SpecDate == DateInit /\ [][DateNext]_vars

\* ------------------------------------------------------------- the claims
SmartScanReturned == pc \in {"found", "loop"} \/ (pc = "done" /\ upload # "unreadable")

AllVariants == <<"Original", "Sharpened", "HighContrastBinary", "Rotated90CW">>

\* C1: the request answers success:true only for a symbol whose matched date
\* parses as a calendar date; a symbol whose match is no calendar date
\* (99-99-9999) is passed over.
C1_SuccessOnlyForParsedDate ==
  (pc = "done" /\ response.success) =>
    /\ DobFields(dob).ok
    /\ DateValid(DobFields(dob).val.year, DobFields(dob).val.month,
                 DobFields(dob).val.day)

\* C2, as claimed: the variants are scanned in the order Original, Sharpened,
\* HighContrastBinary, Rotated90CW; a variant is scanned only if every one
\* before it held nothing; smart_scan returns what the first variant that
\* held something held, and None exactly when all four held nothing.
C2_NoneOnlyAfterFour ==
  /\ Len(scanned) <= 4
  /\ \A k \in 1..Len(scanned) : scanned[k].variant = AllVariants[k]
  /\ \A k \in 1..(Len(scanned) - 1) : scanned[k].found = <<>>
  /\ (SmartScanReturned /\ upload = "image") =>
       /\ scanned # <<>>
       /\ LET last == scanned[Len(scanned)].found
          IN  /\ last # <<>> =>
                   decoded_objects = [i \in 1..Len(last) |-> PayloadOf(last[i])]
              /\ decoded_objects = <<>> <=>
                   (Len(scanned) = 4 /\ \A k \in 1..4 : scanned[k].found = <<>>)

\* C2, amended: the order is as claimed; a variant is scanned only if every
\* one before it was scanned without an exception and held nothing;
\* smart_scan returns what the first variant that held something held, and
\* None exactly when all four held nothing or the scan of a variant raised,
\* the variants after that one not being scanned.
C2_ScanOrder ==
  /\ Len(scanned) <= 4
  /\ \A k \in 1..Len(scanned) : scanned[k].variant = AllVariants[k]
  /\ \A k \in 1..(Len(scanned) - 1) : scanned[k].found = <<>> /\ ~scanned[k].raised
  /\ (SmartScanReturned /\ upload = "image") =>
       /\ scanned # <<>>
       /\ LET last == scanned[Len(scanned)]
          IN  /\ last.found # <<>> =>
                   /\ ~last.raised
                   /\ decoded_objects =
                        [i \in 1..Len(last.found) |-> PayloadOf(last.found[i])]
              /\ decoded_objects = <<>> <=>
                   \/ last.raised
                   \/ Len(scanned) = 4 /\ \A k \in 1..4 : scanned[k].found = <<>>

C2_Witness ==
  /\ pc = "found"
  /\ Len(scanned) = 3
  /\ scanned[3].variant = "HighContrastBinary"
  /\ ~scanned[3].raised
  /\ Len(decoded_objects) = 2

\* C3: decode_secure_qr answers the Latin-1 text of the decompressed bytes
\* only when the payload is UTF-8, an integer, fits its bytes and is a gzip
\* stream; when one of these fails, the UTF-8 text of the payload itself; and
\* a payload that is no UTF-8 is passed over, the loop going on with the
\* next symbol.
C3_FallbackChain ==
  [][(pc = "loop" /\ idx <= Len(decoded_objects)) =>
       LET data == decoded_objects[idx]
           u    == Utf8Decode(data)
           n    == ParseInt(u.val)
           b    == IntToBytes(n.val)
           z    == ZlibDecompress(b.val)
           secure == u.ok /\ n.ok /\ b.ok /\ z.ok
       IN  /\ secure => text_data' = z.val
           /\ (u.ok /\ ~secure) => text_data' = u.val
           /\ ~u.ok => /\ pc' = "loop"
                       /\ idx' = idx + 1
                       /\ response' = response
                       /\ text_data' = text_data]_vars

C3_Witness ==
  /\ pc = "done"
  /\ response.success
  /\ idx = 2
  /\ ~Utf8Decode(decoded_objects[1]).ok

\* C4: the Secure QR payload of every text T (the UTF-8 bytes of T, gzipped,
\* read as a big-endian integer, written in decimal) decodes to exactly T.
C4_RoundTripEveryText == pc = "decoded" => text_data = arg

\* A text of ASCII characters only, which UTF-8 and Latin-1 read alike, does
\* not come back: its payload has more than INT_MAX_STR_DIGITS digits, int()
\* raises, and the except branch answers with the digits of the payload.
C4_Witness ==
  /\ pc = "decoded"
  /\ \A i \in 1..Len(arg) : arg[i] < 128
  /\ Len(decoded_objects[1]) > INT_MAX_STR_DIGITS
  /\ ~ParseInt(Utf8Decode(decoded_objects[1]).val).ok
  /\ text_data = decoded_objects[1]
  /\ text_data # arg

\* C5: for a calendar date of birth in either layout and any today, the age
\* is the difference of the years, less one exactly when today's
\* (month, day) is before the birth's; is_under_18 is age < 18.
C5_ExactAge ==
  LET d == arg.birth[1]
      m == arg.birth[2]
      y == arg.birth[3]
      calendar ==
        /\ y \in 1..9999
        /\ m \in 1..12
        /\ d >= 1
        /\ d <= (IF m = 2
                   THEN (IF y % 4 = 0 /\ (y % 100 # 0 \/ y % 400 = 0) THEN 29 ELSE 28)
                 ELSE IF m \in {4, 6, 9, 11} THEN 30 ELSE 31)
      before == now.month < m \/ (now.month = m /\ now.day < d)
  IN  (pc = "done" /\ calendar) =>
        /\ age = (now.year - y) - (IF before THEN 1 ELSE 0)
        /\ response = [success |-> TRUE, is_under_18 |-> age < 18]
        /\ (arg.birth = <<15, 3, 2010>> /\ now = Date(2024, 3, 14)) => age = 13
        /\ (arg.birth = <<15, 3, 2010>> /\ now = Date(2024, 3, 15)) => age = 14
        /\ (arg.birth = <<1, 1, 2000>> /\ now.year = 2024) => age = 24

C5_Witness ==
  /\ pc = "done"
  /\ arg = [birth |-> <<15, 3, 2010>>, layout |-> "YMD"]
  /\ now = Date(2024, 3, 15)
  /\ age = 14
  /\ response.is_under_18

\* C6: bytes that are no image, and no bytes, never reach a variant, and the
\* request answers "No QR code detected.".
C6_NoImage ==
  upload \in {"garbage", "empty"} =>
    /\ scanned = <<>>
    /\ pc = "done" => response = [success |-> FALSE, message |-> "No QR code detected."]

C6_Witness ==
  /\ pc = "done"
  /\ upload = "empty"
  /\ scanned = <<>>
  /\ response = [success |-> FALSE, message |-> "No QR code detected."]

\* Dates of birth a QR record may carry.
OtherDobs ==
  {DobText(b, l) : b \in {<<15, 3, 2010>>, <<1, 1, 2000>>, <<31, 12, 2011>>,
                          <<14, 3, 2006>>, <<15, 3, 2006>>}, l \in Layouts}

\* C7: a response is success with one boolean, or failure with one of three
\* fixed messages; and any other date of birth on the same side of 18 on the
\* same day gets the same response.
C7_BooleanOnly ==
  pc = "done" =>
    /\ \/ \E b \in BOOLEAN : response = [success |-> TRUE, is_under_18 |-> b]
       \/ \E m \in {"No QR code detected.", "Could not verify age from this QR.",
                    "Internal processing error."} :
            response = [success |-> FALSE, message |-> m]
    /\ response.success =>
         \A other \in OtherDobs :
           (calculate_exact_age(other, now) < 18) = (age < 18)
             => SuccessResponse(calculate_exact_age(other, now)) = response

C7_Witness ==
  /\ pc = "done"
  /\ response.success
  /\ age = 13
  /\ \E other \in OtherDobs : calculate_exact_age(other, now) = 12

\* C8, as claimed: a decoded image gets success:false only after all four
\* variants were scanned.
C8_FailureAfterAllVariants ==
  (pc = "done" /\ upload = "image" /\ ~response.success) => Len(scanned) = 4

\* C8, amended: a decoded image gets "No QR code detected." only after all
\* four variants held nothing or the scan of a variant raised, and "Could not
\* verify age from this QR." only after every symbol of the first variant
\* that held something was tried; the variants after that one are not
\* scanned.
C8_FailureAfterFirstFind ==
  (pc = "done" /\ upload = "image" /\ ~response.success) =>
    LET last == scanned[Len(scanned)]
    IN  /\ \A k \in 1..(Len(scanned) - 1) :
             scanned[k].found = <<>> /\ ~scanned[k].raised
        /\ \/ /\ response.message = "No QR code detected."
              /\ last.found = <<>>
              /\ last.raised \/ Len(scanned) = 4
           \/ /\ response.message = "Could not verify age from this QR."
              /\ last.found # <<>>
              /\ idx = Len(last.found) + 1

C8_Witness ==
  /\ pc = "done"
  /\ upload = "image"
  /\ response = [success |-> FALSE, message |-> "Could not verify age from this QR."]
  /\ Len(scanned) = 2
  /\ idx = 3

\* Where the two date forms occur in a text.
IsDigitAt(t, i) == t[i] \in 48..57
DmyAt(t, i) ==
  /\ i + 9 <= Len(t)
  /\ \A j \in {0, 1, 3, 4, 6, 7, 8, 9} : IsDigitAt(t, i + j)
  /\ t[i + 2] = 45 /\ t[i + 5] = 45
YmdAt(t, i) ==
  /\ i + 9 <= Len(t)
  /\ \A j \in {0, 1, 2, 3, 5, 6, 8, 9} : IsDigitAt(t, i + j)
  /\ t[i + 4] = 45 /\ t[i + 7] = 45
DmyPlaces(t) == {i \in 1..Len(t) : DmyAt(t, i)}
YmdPlaces(t) == {i \in 1..Len(t) : YmdAt(t, i)}
Leftmost(S) == CHOOSE i \in S : \A j \in S : i <= j

\* C9: the leftmost DD-MM-YYYY of the text is the date; the leftmost
\* YYYY-MM-DD is, only when the text holds no DD-MM-YYYY; else there is none.
C9_DmyFirst ==
  pc \in {"match", "nomatch"} =>
    LET dmy == DmyPlaces(text_data)
        ymd == YmdPlaces(text_data)
    IN  IF dmy # {}
          THEN pc = "match" /\ dob = SubSeq(text_data, Leftmost(dmy), Leftmost(dmy) + 9)
        ELSE IF ymd # {}
          THEN pc = "match" /\ dob = SubSeq(text_data, Leftmost(ymd), Leftmost(ymd) + 9)
        ELSE pc = "nomatch"

C9_Witness ==
  /\ pc = "match"
  /\ text_data = YMD(2001, 2, 3) \o <<120>> \o DMY(15, 3, 2010)
  /\ dob = DMY(15, 3, 2010)

\* The value of bytes as a TLC integer, and the bits of a TLC integer.
RECURSIVE BytesValue(_)
BytesValue(b) ==
  IF b = <<>> THEN 0 ELSE 256 * BytesValue(SubSeq(b, 1, Len(b) - 1)) + b[Len(b)]
BitsOf(n) == Cardinality({k \in 0..30 : Pow2(k) <= n})

MinimalBytes(n, b) ==
  /\ Len(b) = (BitsOf(n) + 7) \div 8
  /\ b[1] # 0
  /\ BytesValue(b) = n

\* C10, as claimed: n > 0 is written in ceil(bit_length / 8) bytes, the first
\* not zero, whose big-endian value is n; 0 is written as one zero byte.
C10_MinimalBytesZeroByte ==
  pc = "bytes" =>
    /\ ret.ok
    /\ IF arg > 0 THEN MinimalBytes(arg, ret.val) ELSE ret.val = <<0>>

\* C10, amended: 0 is written as no byte at all.
C10_MinimalBytesNoByte ==
  pc = "bytes" =>
    /\ ret.ok
    /\ IF arg > 0 THEN MinimalBytes(arg, ret.val) ELSE ret.val = <<>>

C10_Witness ==
  /\ pc = "bytes"
  /\ arg = 256
  /\ ret.val = <<1, 0>>

=============================================================================
